---------------------------- MODULE Spec2Model ----------------------------
(***************************************************************************)
(* Model of the Huizemark stock scrapers scripts/fetch_stock.py (strict    *)
(* scraper: two discovery passes, per-page validator, rejection log) and   *)
(* scripts/fetch_stock1.py (results-index scraper reading listing cards).  *)
(*                                                                         *)
(* Representation.                                                         *)
(*  - A Python str is a sequence of one-character strings, so that upper,  *)
(*    lower, title, replace, the digit filter and int() are computed and   *)
(*    not assumed.                                                         *)
(*  - Optional[T] is <<>> (None) or <<x>> (a value).                       *)
(*  - A URL is the sequence of its path segments, i.e. the list `parts`    *)
(*    that re.split(r"/+", path) yields once scheme, host and the outer    *)
(*    slashes are stripped; chars(seg) spells a segment out.               *)
(*  - A fetched detail page is a record of what the selector lookups and   *)
(*    regular-expression searches of the extractors find on it (raw        *)
(*    strings, in document order); the cascades, conversions and checks    *)
(*    that the code runs on those findings are modelled in full.           *)
(***************************************************************************)
EXTENDS Integers, Sequences, FiniteSets, TLC

VARIABLES
    script,        \* which entry point runs: "fetch_stock" or "fetch_stock1"
    pc,            \* position of the control thread
    urls_profile,  \* main: result of collect_from_profile
    urls_results,  \* main: result of collect_from_results
    url,           \* results-index loop: next index URL, or None
    pages,         \* results-index loop: iterations started
    collected,     \* results-index loop: detail URLs (fetch_stock) / card items (fetch_stock1: all_items)
    merged,        \* main: merged candidate sequence
    idx,           \* main: number of candidates the detail loop has handled
    items,         \* main: Listing Records appended so far
    skipped,       \* main: Rejection Records appended so far
    dedup,         \* main: the catalog as written to listings.json
    index_gets,    \* observer: session.get calls of the running results-index pass
    detail_gets,   \* observer: session.get calls of the detail loop, per candidate URL
    inp,           \* unit harness: the [url, page] a function is applied to
    res            \* unit harness: the function applied and what it returned

vars == << script, pc, urls_profile, urls_results, url, pages, collected, merged,
           idx, items, skipped, dedup, index_gets, detail_gets, inp, res >>

-----------------------------------------------------------------------------
(* Optional values *)

None == << >>
Some(x) == << x >>
IsNone(o) == o = << >>
Get(o) == o[1]

-----------------------------------------------------------------------------
(* Python str operations, character by character *)

Lowers == <<"a", "b", "c", "d", "e", "f", "g", "h", "i", "j", "k", "l", "m", "n", "o", "p", "q", "r", "s", "t", "u", "v", "w", "x", "y", "z">>
Uppers == <<"A", "B", "C", "D", "E", "F", "G", "H", "I", "J", "K", "L", "M", "N", "O", "P", "Q", "R", "S", "T", "U", "V", "W", "X", "Y", "Z">>
DigitChars == <<"0", "1", "2", "3", "4", "5", "6", "7", "8", "9">>

LowerSet == { Lowers[i] : i \in 1..Len(Lowers) }
UpperSet == { Uppers[i] : i \in 1..Len(Uppers) }
DigitSet == { DigitChars[i] : i \in 1..Len(DigitChars) }
ToUpper == [c \in LowerSet |-> Uppers[CHOOSE i \in 1..Len(Lowers) : Lowers[i] = c]]
ToLower == [c \in UpperSet |-> Lowers[CHOOSE i \in 1..Len(Uppers) : Uppers[i] = c]]
ToDigit == [c \in DigitSet |-> (CHOOSE i \in 1..Len(DigitChars) : DigitChars[i] = c) - 1]

IsLowerCh(c) == c \in LowerSet
IsUpperCh(c) == c \in UpperSet
IsDigitCh(c) == c \in DigitSet
IsSpaceCh(c) == c = " "

UpperCh(c) == IF IsLowerCh(c) THEN ToUpper[c] ELSE c
LowerCh(c) == IF IsUpperCh(c) THEN ToLower[c] ELSE c
DigitVal(c) == ToDigit[c]

\* str.upper(), str.lower()
upper(s) == [i \in 1..Len(s) |-> UpperCh(s[i])]
lower(s) == [i \in 1..Len(s) |-> LowerCh(s[i])]

\* str.replace("-", " ")
replace_hyphen(s) == [i \in 1..Len(s) |-> IF s[i] = "-" THEN " " ELSE s[i]]

\* str.title(): a cased character is upper-cased when the character before it
\* is not cased (or there is none), lower-cased otherwise; others are kept.
IsCasedCh(c) == IsLowerCh(c) \/ IsUpperCh(c)
title(s) ==
    [i \in 1..Len(s) |->
        IF ~IsCasedCh(s[i]) THEN s[i]
        ELSE IF i > 1 /\ IsCasedCh(s[i-1]) THEN LowerCh(s[i])
        ELSE UpperCh(s[i])]

\* re.sub(r"[^\d]", "", s)
digits_only(s) == SelectSeq(s, IsDigitCh)

\* int(digits) for a non-empty sequence of digits
RECURSIVE int_of(_)
int_of(d) ==
    IF d = << >> THEN 0
    ELSE 10 * int_of(SubSeq(d, 1, Len(d) - 1)) + DigitVal(d[Len(d)])

\* re.search(r"\d+", s): the first maximal run of digits, or no match
first_digit_run(s) ==
    IF \A i \in 1..Len(s) : ~IsDigitCh(s[i]) THEN None
    ELSE LET a == CHOOSE i \in 1..Len(s) :
                      IsDigitCh(s[i]) /\ \A j \in 1..(i-1) : ~IsDigitCh(s[j])
             b == CHOOSE i \in a..Len(s) :
                      /\ \A j \in a..i : IsDigitCh(s[j])
                      /\ (i = Len(s) \/ ~IsDigitCh(s[i+1]))
         IN  Some(SubSeq(s, a, b))

\* `needle in hay` for two str
contains(hay, needle) ==
    \E a \in 1..(Len(hay) - Len(needle) + 1) :
        SubSeq(hay, a, a + Len(needle) - 1) = needle

\* The elements of seq at the positions I, in their order
pick(seq, I) ==
    [k \in 1..Cardinality(I) |-> seq[CHOOSE i \in I : Cardinality({ j \in I : j <= i }) = k]]

\* norm_space: runs of whitespace become one space, then strip
collapse_ws(s) ==
    LET firsts == pick(s, { i \in 1..Len(s) : ~(IsSpaceCh(s[i]) /\ i > 1 /\ IsSpaceCh(s[i-1])) })
    IN  [k \in 1..Len(firsts) |-> IF IsSpaceCh(firsts[k]) THEN " " ELSE firsts[k]]

strip(s) ==
    IF \A i \in 1..Len(s) : IsSpaceCh(s[i]) THEN << >>
    ELSE LET a == CHOOSE i \in 1..Len(s) : ~IsSpaceCh(s[i]) /\ \A j \in 1..(i-1) : IsSpaceCh(s[j])
             b == CHOOSE i \in 1..Len(s) : ~IsSpaceCh(s[i]) /\ \A j \in (i+1)..Len(s) : IsSpaceCh(s[j])
         IN  SubSeq(s, a, b)

norm_space(s) == strip(collapse_ws(s))

\* to_int_money(txt): None for None or ""; else the digits of txt as an int,
\* None when txt holds no digit
to_int_money(txt) ==
    IF IsNone(txt) \/ Get(txt) = << >> THEN None
    ELSE LET digits == digits_only(Get(txt))
         IN  IF digits # << >> THEN Some(int_of(digits)) ELSE None

\* to_int(txt): None for None or ""; else the first run of digits as an int
to_int(txt) ==
    IF IsNone(txt) \/ Get(txt) = << >> THEN None
    ELSE LET m == first_digit_run(Get(txt))
         IN  IF IsNone(m) THEN None ELSE Some(int_of(Get(m)))

-----------------------------------------------------------------------------
(* URL path segments *)

SegResults == "results"
SegResidential == "residential"
ForSale == "for-sale"
ToLet == "to-let"
SegCity == "jhb"
SegArea == "sandton-central"
SegAreaMixed == "oLD-town"
SegAreaDigit == "4th-ave"
SegHouse == "house"
SegLandUpper == "Vacant-Land"
SegFarm == "farm"
SegId == "12345"
SegId2 == "67890"
SegShortId == "123"

\* The characters of each path segment used
chars(seg) ==
    CASE seg = "results" -> <<"r", "e", "s", "u", "l", "t", "s">>
      [] seg = "residential" -> <<"r", "e", "s", "i", "d", "e", "n", "t", "i", "a", "l">>
      [] seg = "for-sale" -> <<"f", "o", "r", "-", "s", "a", "l", "e">>
      [] seg = "to-let" -> <<"t", "o", "-", "l", "e", "t">>
      [] seg = "jhb" -> <<"j", "h", "b">>
      [] seg = "sandton-central" -> <<"s", "a", "n", "d", "t", "o", "n", "-", "c", "e", "n", "t", "r", "a", "l">>
      [] seg = "oLD-town" -> <<"o", "L", "D", "-", "t", "o", "w", "n">>
      [] seg = "4th-ave" -> <<"4", "t", "h", "-", "a", "v", "e">>
      [] seg = "house" -> <<"h", "o", "u", "s", "e">>
      [] seg = "Vacant-Land" -> <<"V", "a", "c", "a", "n", "t", "-", "L", "a", "n", "d">>
      [] seg = "farm" -> <<"f", "a", "r", "m">>
      [] seg = "12345" -> <<"1", "2", "3", "4", "5">>
      [] seg = "67890" -> <<"6", "7", "8", "9", "0">>
      [] seg = "123" -> <<"1", "2", "3">>

TYPES_NO_BEDS ==
    { <<"v", "a", "c", "a", "n", "t", "-", "l", "a", "n", "d">>,
      <<"l", "a", "n", "d">>,
      <<"p", "l", "o", "t">>,
      <<"f", "a", "r", "m">>,
      <<"s", "m", "a", "l", "l", "h", "o", "l", "d", "i", "n", "g">>,
      <<"c", "o", "m", "m", "e", "r", "c", "i", "a", "l">>,
      <<"i", "n", "d", "u", "s", "t", "r", "i", "a", "l">>,
      <<"o", "f", "f", "i", "c", "e">>,
      <<"r", "e", "t", "a", "i", "l">>,
      <<"w", "a", "r", "e", "h", "o", "u", "s", "e">>,
      <<"d", "e", "v", "e", "l", "o", "p", "m", "e", "n", "t">>,
      <<"s", "i", "t", "e">>,
      <<"s", "t", "a", "n", "d">> }

\* parts.index(x): 1-based position of the first occurrence
index_of(parts, x) == CHOOSE i \in 1..Len(parts) : parts[i] = x /\ \A j \in 1..(i-1) : parts[j] # x
has_part(parts, x) == \E i \in 1..Len(parts) : parts[i] = x

\* The marker the two URL readers share: the first "for-sale" segment when the
\* path has one, else the first "to-let" segment, else nothing (0).
marker_index(parts) ==
    IF has_part(parts, ForSale) THEN index_of(parts, ForSale)
    ELSE IF has_part(parts, ToLet) THEN index_of(parts, ToLet)
    ELSE 0

\* Variant of parse_location_from_url that reads the segment right after the
\* marker (the city) instead of the second one (the area)
parse_location_city_segment(parts) ==
    LET i == marker_index(parts)
    IN  IF i = 0 THEN None
        ELSE IF Len(parts) >= i + 1 THEN Some(title(replace_hyphen(chars(parts[i + 1]))))
        ELSE None

\* fetch_stock.py parse_location_from_url
parse_location_from_url(parts) ==
    LET i == marker_index(parts)
    IN  IF i = 0 THEN None
        ELSE IF Len(parts) >= i + 2 THEN Some(title(replace_hyphen(chars(parts[i + 2]))))
        ELSE None

\* fetch_stock.py property_type_from_url
property_type_from_url(parts) ==
    LET i == marker_index(parts)
    IN  IF i = 0 THEN None
        ELSE IF Len(parts) >= i + 3 THEN Some(lower(chars(parts[i + 3])))
        ELSE None

\* fetch_stock.py last_numeric_segment_from_url: re.search finds the FIRST
\* segment made of five or more digits
IsNumericSegment(seg) == Len(chars(seg)) >= 5 /\ \A i \in 1..Len(chars(seg)) : IsDigitCh(chars(seg)[i])
last_numeric_segment_from_url(parts) ==
    IF \A i \in 1..Len(parts) : ~IsNumericSegment(parts[i]) THEN None
    ELSE Some(chars(parts[CHOOSE i \in 1..Len(parts) :
                  IsNumericSegment(parts[i]) /\ \A j \in 1..(i-1) : ~IsNumericSegment(parts[j])]))

\* fetch_stock1.py area_from_url: falls back to the segment after the marker
area_from_url(parts) ==
    LET i == marker_index(parts)
        area_slug == IF i = 0 THEN None
                     ELSE IF Len(parts) >= i + 2 THEN Some(parts[i + 2])
                     ELSE IF Len(parts) >= i + 1 THEN Some(parts[i + 1])
                     ELSE None
    IN  IF IsNone(area_slug) \/ chars(Get(area_slug)) = << >> THEN None
        ELSE Some(title(replace_hyphen(chars(Get(area_slug)))))

-----------------------------------------------------------------------------
(* Field extractors of fetch_stock.py, over what the page holds *)

Truthy(o) == ~IsNone(o) /\ Get(o) # 0

\* The first element of a sequence of optionals that satisfies Ok(_), or None
first_where(opts, Ok(_)) ==
    IF \A i \in 1..Len(opts) : ~Ok(opts[i]) THEN None
    ELSE opts[CHOOSE i \in 1..Len(opts) : Ok(opts[i]) /\ \A j \in 1..(i-1) : ~Ok(opts[j])]

IsSome(o) == ~IsNone(o)

\* verify_agent_ownership: any one signal is enough; the agent's name in the
\* text counts only together with a residential-results URL fragment
verify_agent_ownership(page) ==
    \/ "anchor" \in page.own          \* an anchor href holds an agent path
    \/ "jsonld" \in page.own          \* a JSON-LD node names or links the agent
    \/ "og_url" \in page.own          \* og:url holds an agent path
    \/ "text_snippet" \in page.own    \* the text holds an agent path
    \/ ("text_name" \in page.own /\ "text_fragment" \in page.own)

\* extract_price
extract_price_meta(page) ==
    IF IsSome(page.metaPrice) /\ Get(page.metaPrice) # << >>
    THEN to_int_money(page.metaPrice) ELSE None

extract_price_css(page) ==
    first_where([i \in 1..Len(page.priceBlocks) |-> to_int_money(Some(page.priceBlocks[i]))], Truthy)

extract_price_regex(page) ==
    IF page.monies # << >> THEN to_int_money(Some(Head(page.monies))) ELSE None

extract_price(page) ==
    IF Truthy(extract_price_meta(page)) THEN extract_price_meta(page)
    ELSE IF Truthy(extract_price_css(page)) THEN extract_price_css(page)
    ELSE extract_price_regex(page)

\* extract_ref
ref_block_match(b) ==
    IF IsSome(b.lab) THEN b.lab ELSE IF IsSome(b.rl) THEN b.rl ELSE b.num

extract_ref_blocks(page) ==
    first_where([i \in 1..Len(page.refBlocks) |-> ref_block_match(page.refBlocks[i])], IsSome)

extract_ref_numeric(page) ==
    LET NotMoney(seq) == ~\E k \in 1..Len(page.monies) : contains(page.monies[k], seq)
        Ok(o) == NotMoney(Get(o))
    IN  first_where([i \in 1..Len(page.numerics) |-> Some(page.numerics[i])], Ok)

extract_ref(page, parts) ==
    IF IsSome(page.refLabelled) THEN Some(upper(Get(page.refLabelled)))
    ELSE IF IsSome(extract_ref_blocks(page)) THEN Some(upper(Get(extract_ref_blocks(page))))
    ELSE IF IsSome(page.refRL) THEN Some(upper(Get(page.refRL)))
    ELSE IF IsSome(page.refWindow) THEN Some(upper(Get(page.refWindow)))
    ELSE IF IsSome(extract_ref_numeric(page)) THEN extract_ref_numeric(page)
    ELSE last_numeric_segment_from_url(parts)

\* extract_beds
jsonld_beds(v) ==
    IF v.kind = "number" /\ v.n >= 0 THEN Some(v.n)
    ELSE IF v.kind = "string" /\ IsSome(first_digit_run(v.s)) THEN to_int(Some(v.s))
    ELSE None

extract_beds_jsonld(page) ==
    first_where([i \in 1..Len(page.ldBeds) |-> jsonld_beds(page.ldBeds[i])], IsSome)

extract_beds_blocks(page) ==
    first_where([i \in 1..Len(page.bedBlocks) |-> to_int(Some(page.bedBlocks[i]))], IsSome)

\* Variant of extract_beds without the rule for types that have no bedrooms
extract_beds_without_type_rule(page, ptype) ==
    IF IsSome(extract_beds_jsonld(page)) THEN extract_beds_jsonld(page)
    ELSE IF IsSome(page.labelBeds) THEN Some(int_of(Get(page.labelBeds)))
    ELSE IF IsSome(extract_beds_blocks(page)) THEN extract_beds_blocks(page)
    ELSE IF IsSome(page.wordBeds) THEN Some(int_of(Get(page.wordBeds)))
    ELSE None

\* Variant of extract_beds that falls back to 0 for every property type
extract_beds_zero_for_all(page, ptype) ==
    IF IsSome(extract_beds_jsonld(page)) THEN extract_beds_jsonld(page)
    ELSE IF IsSome(page.labelBeds) THEN Some(int_of(Get(page.labelBeds)))
    ELSE IF IsSome(extract_beds_blocks(page)) THEN extract_beds_blocks(page)
    ELSE IF IsSome(page.wordBeds) THEN Some(int_of(Get(page.wordBeds)))
    ELSE Some(0)

extract_beds(page, ptype) ==
    IF IsSome(extract_beds_jsonld(page)) THEN extract_beds_jsonld(page)
    ELSE IF IsSome(page.labelBeds) THEN Some(int_of(Get(page.labelBeds)))
    ELSE IF IsSome(extract_beds_blocks(page)) THEN extract_beds_blocks(page)
    ELSE IF IsSome(page.wordBeds) THEN Some(int_of(Get(page.wordBeds)))
    ELSE IF ptype \in TYPES_NO_BEDS THEN Some(0)
    ELSE None

\* Title cascade of extract_complete_item_from_detail: the first matched
\* selector whose normalised text is non-empty, else the <title> element
extract_title(page) ==
    LET NonEmpty(o) == Get(o) # << >>
        sel == first_where([i \in 1..Len(page.titleNodes) |-> Some(norm_space(page.titleNodes[i]))], NonEmpty)
    IN  IF IsSome(sel) THEN sel
        ELSE IF IsSome(page.docTitle) THEN Some(norm_space(Get(page.docTitle)))
        ELSE None

-----------------------------------------------------------------------------
(* The validator *)

Unknown == <<"u", "n", "k", "n", "o", "w", "n">>

Rejected(reason, ptype) == [item |-> None, reason |-> reason, property_type |-> ptype]
Complete(item) == [item |-> Some(item), reason |-> "", property_type |-> None]

\* The six checks of the validator, each on its own: the check fails on this
\* page and URL, and the reason it writes
Stages == <<"ownership", "area", "title", "price", "beds", "ref">>

\* The ptype argument extract_complete_item_from_detail passes to extract_beds
ptype_of(parts) ==
    IF IsSome(property_type_from_url(parts)) THEN lower(Get(property_type_from_url(parts))) ELSE << >>

StageFails(stage, page, parts) ==
    CASE stage = "ownership" -> ~verify_agent_ownership(page)
      [] stage = "area"  -> ~IsSome(parse_location_from_url(parts)) \/ Get(parse_location_from_url(parts)) = << >>
      [] stage = "title" -> ~IsSome(extract_title(page)) \/ Get(extract_title(page)) = << >>
      [] stage = "price" -> ~IsSome(extract_price(page))
      [] stage = "beds"  -> ~IsSome(extract_beds(page, ptype_of(parts)))
      [] stage = "ref"   -> ~IsSome(extract_ref(page, parts)) \/ Get(extract_ref(page, parts)) = << >>

StageReason(stage) ==
    CASE stage = "ownership" -> "not_owned_by_agent_75570"
      [] stage = "area"  -> "missing_area"
      [] stage = "title" -> "missing_title"
      [] stage = "price" -> "missing_price"
      [] stage = "beds"  -> "missing_beds_required_for_residential"
      [] stage = "ref"   -> "missing_ref"

\* Variants of extract_complete_item_from_detail: the checks in another order,
\* or one check left out
validate_in_order(page, parts, order) ==
    IF \E k \in 1..Len(order) : StageFails(order[k], page, parts)
    THEN LET first == CHOOSE k \in 1..Len(order) :
                        /\ StageFails(order[k], page, parts)
                        /\ \A j \in 1..(k-1) : ~StageFails(order[j], page, parts)
         IN  Rejected(StageReason(order[first]),
                      IF order[first] = "beds"
                      THEN Some(IF ptype_of(parts) # << >> THEN ptype_of(parts) ELSE Unknown)
                      ELSE None)
    ELSE Complete([ref |-> extract_ref(page, parts), title |-> extract_title(page),
                   url |-> parts, price |-> extract_price(page),
                   beds |-> extract_beds(page, ptype_of(parts)),
                   area |-> parse_location_from_url(parts)])

validate_area_before_ownership(page, parts) ==
    validate_in_order(page, parts, <<"area", "ownership", "title", "price", "beds", "ref">>)

validate_beds_before_price(page, parts) ==
    validate_in_order(page, parts, <<"ownership", "area", "title", "beds", "price", "ref">>)

validate_without_ref_check(page, parts) ==
    validate_in_order(page, parts, <<"ownership", "area", "title", "price", "beds">>)

\* extract_complete_item_from_detail(html, url, skip_log): the item, and what
\* it wrote to skip_log. The fields of an item are kept as the optionals the
\* extractors returned (a dict value may be None).
extract_complete_item_from_detail(page, parts) ==
    LET ptype == IF IsSome(property_type_from_url(parts))
                 THEN lower(Get(property_type_from_url(parts))) ELSE << >>
        area  == parse_location_from_url(parts)
        ttl   == extract_title(page)
        price == extract_price(page)
        beds  == extract_beds(page, ptype)
        ref   == extract_ref(page, parts)
    IN  IF ~verify_agent_ownership(page) THEN Rejected("not_owned_by_agent_75570", None)
        ELSE IF IsNone(area) \/ Get(area) = << >> THEN Rejected("missing_area", None)
        ELSE IF IsNone(ttl) \/ Get(ttl) = << >> THEN Rejected("missing_title", None)
        ELSE IF IsNone(price) THEN Rejected("missing_price", None)
        ELSE IF IsNone(beds)
             THEN Rejected("missing_beds_required_for_residential",
                           Some(IF ptype # << >> THEN ptype ELSE Unknown))
        ELSE IF IsNone(ref) \/ Get(ref) = << >> THEN Rejected("missing_ref", None)
        ELSE Complete([ref |-> ref, title |-> ttl, url |-> parts,
                       price |-> price, beds |-> beds, area |-> area])

-----------------------------------------------------------------------------
(* Pages and URLs the functions are applied to *)

TitleApt == <<"A", "p", "t">>
TitleVilla == <<"V", "i", "l", "l", "a">>
TitleRawSpaced == <<" ", "N", "e", "w", " ", " ", "h", "o", "m", "e", " ">>
TitleBlank == <<" ">>
TxtPOA == <<"P", "O", "A">>
TxtZero == <<"0">>
Txt1200 == <<"1", "2", "0", "0">>
TxtR0 == <<"R", " ", "0">>
TxtRComma == <<"R", " ", ",">>
TxtR950 == <<"R", " ", "9", "5", "0">>
TxtR95000 == <<"R", " ", "9", "5", "0", "0", "0">>
Txt2 == <<"2">>
Txt5 == <<"5">>
Txt3Beds == <<"3", " ", "b", "e", "d", "s">>
TxtBedsOnly == <<"b", "e", "d", "s">>
TxtNA == <<"n", "/", "a">>
Txt4Rooms == <<"4", " ", "r", "o", "o", "m", "s">>
RefAb == <<"a", "b", "1", "2", "3", "4", "5">>
RefNum == <<"5", "4", "3", "2", "1">>
RefRl == <<"r", "l", "1", "2", "3">>
RefRl2 == <<"R", "L", "7", "7", "7">>
Num654321 == <<"6", "5", "4", "3", "2", "1">>
Num95000 == <<"9", "5", "0", "0", "0">>

\* Longest list of nodes / matches a page holds for one cascade stage
MaxNodes == 2
\* Longest URL tail (segments after /results/residential/) that is enumerated
MaxTail == 4

SeqsUpTo(S, n) == UNION { [1..k -> S] : k \in 0..n }
Range(f) == { f[i] : i \in DOMAIN f }

JNum(n) == [kind |-> "number", n |-> n, s |-> << >>]
JStr(s) == [kind |-> "string", n |-> 0, s |-> s]
JOther == [kind |-> "other", n |-> 0, s |-> << >>]
RefBlock(lab, rl, num) == [lab |-> lab, rl |-> rl, num |-> num]

\* MONEY_RE finds a match in s: an R or r followed by a digit, space, comma,
\* full stop or apostrophe
IsMoneyTailCh(c) == IsDigitCh(c) \/ IsSpaceCh(c) \/ c \in {",", ".", "'"}
has_money_match(s) ==
    \E i \in 1..(Len(s) - 1) : s[i] \in {"R", "r"} /\ IsMoneyTailCh(s[i+1])

\* The standalone numbers of five or more digits inside s (REF_NUMERIC_RE:
\* a run of digits between two word boundaries)
IsWordCh(c) == IsDigitCh(c) \/ IsCasedCh(c) \/ c = "_"
long_digit_runs(s) ==
    { SubSeq(s, ab[1], ab[2]) :
        ab \in { ab \in (1..Len(s)) \X (1..Len(s)) :
                   /\ ab[2] - ab[1] + 1 >= 5
                   /\ \A j \in ab[1]..ab[2] : IsDigitCh(s[j])
                   /\ (ab[1] = 1 \/ ~IsWordCh(s[ab[1] - 1]))
                   /\ (ab[2] = Len(s) \/ ~IsWordCh(s[ab[2] + 1])) } }

\* What holds of every page because `text` is the text of the whole document
\* (soup.get_text): a block's text is part of it, so a match inside a block is
\* a match in the text; the label of the numeric window is a label of
\* REF_LABELLED_RE; a long number inside a money amount is a number of the text.
PageOK(page) ==
    /\ (\E i \in 1..Len(page.priceBlocks) : has_money_match(page.priceBlocks[i]))
          => page.monies # << >>
    /\ IsSome(page.refWindow) => IsSome(page.refLabelled)
    /\ \A i \in 1..Len(page.refBlocks) :
          /\ IsSome(page.refBlocks[i].lab) => IsSome(page.refLabelled)
          /\ IsSome(page.refBlocks[i].rl) => IsSome(page.refRL)
          /\ IsSome(page.refBlocks[i].num) => page.numerics # << >>
    /\ \A k \in 1..Len(page.monies) : long_digit_runs(page.monies[k]) \subseteq Range(page.numerics)

\* A page of the agent on which every field resolves at the first stage
GoodPage ==
    [ own |-> {"anchor"},
      titleNodes |-> <<TitleApt>>, docTitle |-> None,
      metaPrice |-> Some(Txt1200), priceBlocks |-> << >>, monies |-> << >>,
      ldBeds |-> << >>, labelBeds |-> Some(Txt2), bedBlocks |-> << >>, wordBeds |-> None,
      refLabelled |-> Some(RefAb), refBlocks |-> << >>, refRL |-> None,
      refWindow |-> None, numerics |-> << >> ]

Prefix == <<SegResults, SegResidential>>
UrlHouse == Prefix \o <<ForSale, SegCity, SegArea, SegHouse, SegId>>
UrlLand == Prefix \o <<ToLet, SegCity, SegAreaMixed, SegLandUpper, SegId, SegId2>>
UrlFarm == Prefix \o <<ForSale, SegCity, SegAreaDigit, SegFarm, SegShortId>>
UrlNoType == Prefix \o <<ForSale, SegCity, SegArea>>
UrlCityOnly == Prefix \o <<ToLet, SegCity>>
UrlNoMarker == Prefix \o <<SegCity, SegArea, SegHouse, SegId>>
UrlBothMarkers == Prefix \o <<ToLet, SegCity, SegArea, ForSale>>

FixedUrls == {UrlHouse, UrlLand, UrlFarm, UrlNoType, UrlCityOnly, UrlNoMarker, UrlBothMarkers}
TailSegments == {ForSale, ToLet, SegCity, SegAreaMixed, SegId}
EnumeratedUrls == { Prefix \o t : t \in SeqsUpTo(TailSegments, MaxTail) }

Input(focus, parts, page) == [focus |-> focus, url |-> parts, page |-> page]

UrlInputs == { Input("url", u, GoodPage) : u \in FixedUrls \cup EnumeratedUrls }

PricePages ==
    { pg \in { [GoodPage EXCEPT !.metaPrice = m, !.priceBlocks = b, !.monies = mo] :
                 m \in {None, Some(<< >>), Some(TxtZero), Some(TxtPOA), Some(Txt1200)},
                 b \in SeqsUpTo({TxtPOA, TxtR0, TxtR950}, MaxNodes),
                 mo \in {<< >>, <<TxtR0>>, <<TxtRComma>>, <<TxtR950>>, <<TxtR0, TxtR950>>} } : PageOK(pg) }
PriceInputs == { Input("price", UrlHouse, pg) : pg \in PricePages }

BedsPages ==
    { [GoodPage EXCEPT !.ldBeds = ld, !.labelBeds = lb, !.bedBlocks = bb, !.wordBeds = wb] :
        ld \in SeqsUpTo({JNum(-1), JNum(0), JNum(3), JStr(Txt4Rooms), JStr(TxtNA)}, MaxNodes),
        lb \in {None, Some(Txt2)},
        bb \in {<< >>, <<TxtBedsOnly>>, <<Txt3Beds>>, <<TxtBedsOnly, Txt3Beds>>},
        wb \in {None, Some(Txt5)} }
BedsInputs == { Input("beds", u, pg) : u \in {UrlHouse, UrlLand, UrlNoType}, pg \in BedsPages }

RefPages ==
    { pg \in { [GoodPage EXCEPT !.refLabelled = lab, !.refBlocks = bl, !.refRL = rl,
                                !.refWindow = w, !.numerics = nums, !.monies = mo] :
                 lab \in {None, Some(RefAb)},
                 bl \in SeqsUpTo({RefBlock(None, None, None), RefBlock(None, Some(RefRl2), None),
                                  RefBlock(None, None, Some(Num654321)),
                                  RefBlock(Some(RefNum), None, Some(RefNum))}, 1),
                 rl \in {None, Some(RefRl)},
                 w \in {None, Some(RefNum)},
                 nums \in SeqsUpTo({Num654321, Num95000}, MaxNodes),
                 mo \in {<< >>, <<TxtR95000>>} } : PageOK(pg) }
RefInputs == { Input("ref", u, pg) : u \in {UrlHouse, UrlLand, UrlFarm}, pg \in RefPages }

OwnCases == { {}, {"text_name"}, {"text_fragment"}, {"text_name", "text_fragment"},
              {"anchor"}, {"jsonld"}, {"og_url"}, {"text_snippet"} }
TitleCases == { [nodes |-> << >>, doc |-> None], [nodes |-> <<TitleBlank>>, doc |-> Some(TitleBlank)],
                [nodes |-> <<TitleBlank>>, doc |-> Some(TitleVilla)],
                [nodes |-> <<TitleRawSpaced>>, doc |-> None] }
PriceCases == { [meta |-> None, monies |-> << >>], [meta |-> Some(TxtPOA), monies |-> <<TxtRComma>>],
                [meta |-> None, monies |-> <<TxtR0>>], [meta |-> Some(Txt1200), monies |-> << >>] }
BedsCases == { [ld |-> << >>, label |-> None], [ld |-> <<JNum(0)>>, label |-> None],
               [ld |-> <<JOther>>, label |-> Some(Txt2)] }
RefCases == { [lab |-> None, nums |-> << >>], [lab |-> Some(RefAb), nums |-> <<Num654321>>],
              [lab |-> None, nums |-> <<Num654321>>] }

ValidatorPages ==
    { [GoodPage EXCEPT !.own = o, !.titleNodes = t.nodes, !.docTitle = t.doc,
                       !.metaPrice = p.meta, !.monies = p.monies,
                       !.ldBeds = b.ld, !.labelBeds = b.label,
                       !.refLabelled = r.lab, !.numerics = r.nums] :
        o \in OwnCases, t \in TitleCases, p \in PriceCases, b \in BedsCases, r \in RefCases }
ValidatorInputs ==
    { Input("validate", u, pg) : u \in {UrlHouse, UrlLand, UrlFarm, UrlNoType, UrlCityOnly, UrlNoMarker},
                                 pg \in ValidatorPages }

UnitInputs == UrlInputs \cup PriceInputs \cup BedsInputs \cup RefInputs \cup ValidatorInputs

NoInput == [focus |-> "none"]
NoResult == [fn |-> "none"]

-----------------------------------------------------------------------------
(* Unit harness: one function applied to one input *)


Idle ==
    /\ urls_profile = << >> /\ urls_results = << >> /\ url = None /\ pages = 0
    /\ collected = << >> /\ merged = << >> /\ idx = 0 /\ items = << >>
    /\ skipped = << >> /\ dedup = << >> /\ index_gets = 0 /\ detail_gets = << >>

InitUnit ==
    /\ script = "unit"
    /\ pc = "unit_input"
    /\ Idle
    /\ inp \in UnitInputs
    /\ res = NoResult

Returned(fn, val) ==
    /\ pc' = "unit_done"
    /\ res' = [fn |-> fn, val |-> val]
    /\ UNCHANGED << script, urls_profile, urls_results, url, pages, collected, merged,
                    idx, items, skipped, dedup, index_gets, detail_gets, inp >>

ApplyParseLocation ==
    /\ pc = "unit_input" /\ inp.focus = "url"
    /\ Returned("parse_location_from_url", parse_location_from_url(inp.url))

ApplyAreaFromUrl ==
    /\ pc = "unit_input" /\ inp.focus = "url"
    /\ Returned("area_from_url", area_from_url(inp.url))

ApplyExtractPrice ==
    /\ pc = "unit_input" /\ inp.focus = "price"
    /\ Returned("extract_price", extract_price(inp.page))

ApplyExtractBeds ==
    /\ pc = "unit_input" /\ inp.focus = "beds"
    /\ Returned("extract_beds", extract_beds(inp.page, ptype_of(inp.url)))

ApplyExtractRef ==
    /\ pc = "unit_input" /\ inp.focus = "ref"
    /\ Returned("extract_ref", extract_ref(inp.page, inp.url))

ApplyValidate ==
    /\ pc = "unit_input"
    /\ Returned("extract_complete_item_from_detail",
                extract_complete_item_from_detail(inp.page, inp.url))

NextUnit ==
    \/ ApplyParseLocation
    \/ ApplyAreaFromUrl
    \/ ApplyExtractPrice
    \/ ApplyExtractBeds
    \/ ApplyExtractRef
    \/ ApplyValidate

SpecUnit == InitUnit /\ [][NextUnit]_vars

-----------------------------------------------------------------------------
(* What a run meets on the network *)

\* Number of detail URLs the site links to
NumUrls == 2
\* Most card items fetch_stock1.py holds in all_items
MaxItems == 3

MAX_PAGES == 20
MAX_PAGES_1 == 12

UrlList == <<UrlHouse, UrlFarm, UrlCityOnly, UrlLand, UrlNoMarker>>
CandUrls == { UrlList[i] : i \in 1..NumUrls }

\* The residential hrefs one profile or index page lists, in document order:
\* none, one, or two (the same URL twice included)
PageHrefs == SeqsUpTo(CandUrls, 2)

RESULTS_URL == "https://www.huizemark.com/results/agent/75570/"

\* The next-page hrefs a results page may carry: a rooted link to the first
\* page and an absolute link to a second page
Hrefs == {"/results/agent/75570/", "https://www.huizemark.com/results/agent/75570/?page=2"}
make_abs(href) ==
    IF href = "/results/agent/75570/" THEN "https://www.huizemark.com" \o href ELSE href

\* Detail pages a fetch may return
DetailPages ==
    { GoodPage,
      [GoodPage EXCEPT !.titleNodes = <<TitleBlank>>, !.docTitle = Some(TitleVilla)],
      [GoodPage EXCEPT !.metaPrice = Some(TxtZero), !.monies = <<TxtR0>>],
      [GoodPage EXCEPT !.metaPrice = None, !.priceBlocks = <<TxtPOA, TxtR950>>,
                       !.monies = <<TxtR950>>, !.labelBeds = None],
      [GoodPage EXCEPT !.own = {"text_name"}],
      [GoodPage EXCEPT !.titleNodes = << >>],
      [GoodPage EXCEPT !.metaPrice = Some(TxtPOA)],
      [GoodPage EXCEPT !.refLabelled = None, !.numerics = <<Num95000>>, !.monies = <<TxtR95000>>] }

\* First-occurrence de-duplication (the seen/uniq loops)
uniq(seq) == pick(seq, { i \in 1..Len(seq) : \A j \in 1..(i-1) : seq[j] # seq[i] })

\* parse_results_for_detail_urls / parse_profile_for_detail_urls: the
\* residential hrefs of the page (for the profile: anchors, then JSON-LD urls),
\* made absolute, first occurrences kept
parse_results_for_detail_urls(hrefs) == uniq(hrefs)
parse_profile_for_detail_urls(hrefs) == uniq(hrefs)

\* for u in urls: if u not in collected: collected.append(u)
extend_new(coll, urls) ==
    coll \o pick(urls, { i \in 1..Len(urls) :
                            /\ urls[i] \notin Range(coll)
                            /\ \A j \in 1..(i-1) : urls[j] # urls[i] })

\* Code-point order of the characters used
CodeOrder == <<" ", "'", ",", "-", ".", "/">> \o DigitChars \o Uppers \o <<"_">> \o Lowers
Ord(c) == CHOOSE i \in 1..Len(CodeOrder) : CodeOrder[i] = c

\* a < b for two str
str_lt(a, b) ==
    \/ Len(a) < Len(b) /\ SubSeq(b, 1, Len(a)) = a
    \/ \E k \in 1..Len(a) :
          /\ k <= Len(b)
          /\ SubSeq(a, 1, k - 1) = SubSeq(b, 1, k - 1)
          /\ Ord(a[k]) < Ord(b[k])

\* a < b for two sort keys (price, title), compared as Python compares tuples
key_lt(a, b) == a[1] < b[1] \/ (a[1] = b[1] /\ str_lt(a[2], b[2]))

\* list.sort(key=..., reverse=True), key[i] being the key of seq[i]:
\* descending, elements of equal keys in their original order
sort_desc(seq, key) ==
    LET n == Len(seq)
        pos(i) == 1 + Cardinality({ j \in 1..n : key_lt(key[i], key[j]) })
                    + Cardinality({ j \in 1..(i-1) : ~key_lt(key[i], key[j]) /\ ~key_lt(key[j], key[i]) })
    IN  [k \in 1..n |-> seq[CHOOSE i \in 1..n : pos(i) = k]]

\* De-duplicate by url, first record kept
dedup_by_url(its) ==
    pick(its, { i \in 1..Len(its) : \A j \in 1..(i-1) : its[j].url # its[i].url })

\* fetch_stock.py: key (price or 0, title or "")
price_or_0(it) == IF IsSome(it.price) THEN Get(it.price) ELSE 0
title_or_empty(it) == IF IsSome(it.title) THEN Get(it.title) ELSE << >>
\* Variant of sort_key without the title
sort_key_price_only(it) == <<price_or_0(it), << >> >>
sort_key(it) == <<price_or_0(it), title_or_empty(it)>>
\* fetch_stock1.py: key (price or 0); the second component is the same for all
sort_key_1(it) == <<price_or_0(it), << >> >>

-----------------------------------------------------------------------------
(* fetch_stock.py main *)

NoGets == [u \in CandUrls |-> 0]

Init ==
    /\ script \in {"fetch_stock", "fetch_stock1"}
    /\ pc = IF script = "fetch_stock" THEN "profile" ELSE "loop_1"
    /\ urls_profile = << >> /\ urls_results = << >>
    /\ url = IF script = "fetch_stock" THEN None ELSE Some(RESULTS_URL)
    /\ pages = 0 /\ collected = << >> /\ merged = << >> /\ idx = 0
    /\ items = << >> /\ skipped = << >> /\ dedup = << >>
    /\ index_gets = 0 /\ detail_gets = NoGets
    /\ inp = NoInput /\ res = NoResult

\* collect_from_profile, the fetch of PROFILE_URL succeeding; main then enters
\* collect_from_results
ProfileFetched ==
    /\ pc = "profile"
    /\ \E hrefs \in PageHrefs :
          urls_profile' = parse_profile_for_detail_urls(hrefs)
    /\ pc' = "results" /\ url' = Some(RESULTS_URL) /\ pages' = 0 /\ collected' = << >>
    /\ UNCHANGED << script, urls_results, merged, idx, items, skipped, dedup,
                    index_gets, detail_gets, inp, res >>

\* collect_from_profile, fetch_html returning None: no URLs
ProfileFetchFailed ==
    /\ pc = "profile"
    /\ urls_profile' = << >>
    /\ pc' = "results" /\ url' = Some(RESULTS_URL) /\ pages' = 0 /\ collected' = << >>
    /\ UNCHANGED << script, urls_results, merged, idx, items, skipped, dedup,
                    index_gets, detail_gets, inp, res >>

\* Variant of ResultsPageFetched that does not count the page
ResultsPageFetched_Uncounted ==
    /\ pc = "results" /\ IsSome(url) /\ pages < MAX_PAGES
    /\ pages' = pages
    /\ index_gets' = index_gets + 1
    /\ \E hrefs \in PageHrefs :
          collected' = extend_new(collected, parse_results_for_detail_urls(hrefs))
    /\ \E nxt \in {None} \cup { Some(h) : h \in Hrefs } :
          url' = IF IsSome(nxt) THEN Some(make_abs(Get(nxt))) ELSE None
    /\ UNCHANGED << script, pc, urls_profile, urls_results, merged, idx, items, skipped,
                    dedup, detail_gets, inp, res >>

\* One iteration of the while loop of collect_from_results, the fetch succeeding
ResultsPageFetched ==
    /\ pc = "results" /\ IsSome(url) /\ pages < MAX_PAGES
    /\ pages' = pages + 1
    /\ index_gets' = index_gets + 1
    /\ \E hrefs \in PageHrefs :
          collected' = extend_new(collected, parse_results_for_detail_urls(hrefs))
    /\ \E nxt \in {None} \cup { Some(h) : h \in Hrefs } :
          url' = IF IsSome(nxt) THEN Some(make_abs(Get(nxt))) ELSE None
    /\ UNCHANGED << script, pc, urls_profile, urls_results, merged, idx, items, skipped,
                    dedup, detail_gets, inp, res >>

\* One iteration whose fetch fails: break
ResultsFetchFailed ==
    /\ pc = "results" /\ IsSome(url) /\ pages < MAX_PAGES
    /\ pages' = pages + 1
    /\ index_gets' = index_gets + 1
    /\ pc' = "results_break"
    /\ UNCHANGED << script, urls_profile, urls_results, url, collected, merged, idx, items,
                    skipped, dedup, detail_gets, inp, res >>

\* collect_from_results returns collected: the loop condition is false, or the
\* loop was left by break. Its locals end with it.
ResultsReturn ==
    /\ \/ pc = "results" /\ ~(IsSome(url) /\ pages < MAX_PAGES)
       \/ pc = "results_break"
    /\ urls_results' = collected
    /\ pc' = "merge"
    /\ url' = None /\ pages' = 0 /\ collected' = << >> /\ index_gets' = 0
    /\ UNCHANGED << script, urls_profile, merged, idx, items, skipped, dedup,
                    detail_gets, inp, res >>

\* Variant of Merge that takes the results-index URLs first
Merge_ResultsFirst ==
    /\ pc = "merge"
    /\ merged' = uniq(urls_results \o urls_profile)
    /\ pc' = "detail"
    /\ UNCHANGED << script, urls_profile, urls_results, url, pages, collected, idx, items,
                    skipped, dedup, index_gets, detail_gets, inp, res >>

\* Merge (profile first), de-dupe
Merge ==
    /\ pc = "merge"
    /\ merged' = uniq(urls_profile \o urls_results)
    /\ pc' = "detail"
    /\ UNCHANGED << script, urls_profile, urls_results, url, pages, collected, idx, items,
                    skipped, dedup, index_gets, detail_gets, inp, res >>

\* Variant of DetailFetchFailed that stays at the same candidate
DetailFetchFailed_Retried ==
    /\ pc = "detail" /\ idx < Len(merged)
    /\ LET u == merged[idx + 1]
       IN  /\ detail_gets' = [detail_gets EXCEPT ![u] = @ + 1]
           /\ skipped' = Append(skipped, [url |-> u, reason |-> "detail_fetch_failed",
                                          property_type |-> None])
    /\ idx' = idx
    /\ UNCHANGED << script, pc, urls_profile, urls_results, url, pages, collected, merged,
                    items, dedup, index_gets, inp, res >>

\* One iteration of the detail loop whose fetch fails
DetailFetchFailed ==
    /\ pc = "detail" /\ idx < Len(merged)
    /\ LET u == merged[idx + 1]
       IN  /\ detail_gets' = [detail_gets EXCEPT ![u] = @ + 1]
           /\ skipped' = Append(skipped, [url |-> u, reason |-> "detail_fetch_failed",
                                          property_type |-> None])
    /\ idx' = idx + 1
    /\ UNCHANGED << script, pc, urls_profile, urls_results, url, pages, collected, merged,
                    items, dedup, index_gets, inp, res >>

\* One iteration of the detail loop whose fetch returns a page
DetailFetched ==
    /\ pc = "detail" /\ idx < Len(merged)
    /\ \E page \in DetailPages :
          LET u == merged[idx + 1]
              out == extract_complete_item_from_detail(page, u)
          IN  /\ detail_gets' = [detail_gets EXCEPT ![u] = @ + 1]
              /\ IF IsSome(out.item)
                 THEN items' = Append(items, Get(out.item)) /\ skipped' = skipped
                 ELSE /\ skipped' = Append(skipped, [url |-> u, reason |-> out.reason,
                                                    property_type |-> out.property_type])
                      /\ items' = items
    /\ idx' = idx + 1
    /\ UNCHANGED << script, pc, urls_profile, urls_results, url, pages, collected, merged,
                    dedup, index_gets, inp, res >>

\* After the loop: de-duplicate, sort, write listings.json and debug_skipped.json
Finish ==
    /\ pc = "detail" /\ idx = Len(merged)
    /\ LET d == dedup_by_url(items)
       IN  dedup' = sort_desc(d, [i \in 1..Len(d) |-> sort_key(d[i])])
    /\ pc' = "done"
    /\ UNCHANGED << script, urls_profile, urls_results, url, pages, collected, merged, idx,
                    items, skipped, index_gets, detail_gets, inp, res >>

-----------------------------------------------------------------------------
(* fetch_stock1.py main *)

\* A listing card as extract_from_card reads it: the residential href, the
\* anchor's title, and the first matches of the price, beds and ref patterns
\* in the card's text
CardTexts ==
    << [title |-> TitleApt, money |-> Some(TxtR950), beds |-> Some(Txt2), ref |-> Some(RefRl)],
       [title |-> TitleVilla, money |-> Some(TxtR950), beds |-> None, ref |-> None],
       [title |-> TitleApt, money |-> None, beds |-> None, ref |-> None],
       [title |-> TitleVilla, money |-> Some(TxtR0), beds |-> None, ref |-> None],
       [title |-> TitleApt, money |-> Some(TxtR950), beds |-> None, ref |-> None] >>
Cards ==
    { [url |-> UrlList[i], title |-> CardTexts[i].title, money |-> CardTexts[i].money,
       beds |-> CardTexts[i].beds, ref |-> CardTexts[i].ref] : i \in 1..NumUrls }

\* The cards one index page holds, in document order: none, one, or two
PageCards == SeqsUpTo(Cards, 2)

\* fetch_stock1.py to_number(txt): None for None or ""; else the digits of txt
\* as an int, None when txt holds no digit
to_number(txt) ==
    IF IsNone(txt) \/ Get(txt) = << >> THEN None
    ELSE LET n == digits_only(Get(txt))
         IN  IF n # << >> THEN Some(int_of(n)) ELSE None

extract_from_card(card) ==
    [ ref |-> IF IsSome(card.ref) THEN Some(upper(Get(card.ref))) ELSE None,
      title |-> Some(card.title),
      url |-> card.url,
      price |-> to_number(card.money),
      beds |-> IF IsSome(card.beds) THEN Some(int_of(Get(card.beds))) ELSE None,
      area |-> area_from_url(card.url) ]

\* extract_listings_from_html: the items of the page's cards, de-duplicated by url
extract_listings_from_html(cards) ==
    dedup_by_url([i \in 1..Len(cards) |-> extract_from_card(cards[i])])

\* extract_listings_from_html of each page a fetch may return, computed once
ListingsOfPage == [cards \in PageCards |-> extract_listings_from_html(cards)]

\* One iteration of the while loop of main, the fetch succeeding
PageFetched_1 ==
    /\ pc = "loop_1" /\ IsSome(url) /\ pages < MAX_PAGES_1
    /\ pages' = pages + 1
    /\ index_gets' = index_gets + 1
    /\ \E cards \in PageCards :
          LET found == ListingsOfPage[cards]
          IN  /\ Len(collected) + Len(found) <= MaxItems
              /\ collected' = collected \o found
    /\ \E nxt \in {None} \cup { Some(h) : h \in Hrefs } :
          url' = IF IsSome(nxt) THEN Some(make_abs(Get(nxt))) ELSE None
    /\ UNCHANGED << script, pc, urls_profile, urls_results, merged, idx, items, skipped,
                    dedup, detail_gets, inp, res >>

\* One iteration whose session.get or raise_for_status raises: the exception
\* leaves main, nothing is written
FetchRaised_1 ==
    /\ pc = "loop_1" /\ IsSome(url) /\ pages < MAX_PAGES_1
    /\ pages' = pages + 1
    /\ index_gets' = index_gets + 1
    /\ pc' = "crashed"
    /\ UNCHANGED << script, urls_profile, urls_results, url, collected, merged, idx, items,
                    skipped, dedup, detail_gets, inp, res >>

\* After the loop: de-duplicate, sort by price, write listings.json
Finish_1 ==
    /\ pc = "loop_1" /\ ~(IsSome(url) /\ pages < MAX_PAGES_1)
    /\ LET d == dedup_by_url(collected)
       IN  dedup' = sort_desc(d, [i \in 1..Len(d) |-> sort_key_1(d[i])])
    /\ pc' = "done"
    /\ UNCHANGED << script, urls_profile, urls_results, url, pages, collected, merged, idx,
                    items, skipped, index_gets, detail_gets, inp, res >>

-----------------------------------------------------------------------------
(* Specifications *)

Next ==
    \/ ProfileFetched
    \/ ProfileFetchFailed
    \/ ResultsPageFetched
    \/ ResultsFetchFailed
    \/ ResultsReturn
    \/ Merge
    \/ DetailFetchFailed
    \/ DetailFetched
    \/ Finish
    \/ PageFetched_1
    \/ FetchRaised_1
    \/ Finish_1

\* A run of either script
Spec == Init /\ [][Next]_vars

\* The results-index pass alone. fetch_stock.py enters collect_from_results
\* after collect_from_profile has returned (nothing, or one URL);
\* fetch_stock1.py starts with the pass.
InitIndex ==
    /\ script \in {"fetch_stock", "fetch_stock1"}
    /\ pc = IF script = "fetch_stock" THEN "results" ELSE "loop_1"
    /\ urls_profile \in (IF script = "fetch_stock" THEN {<< >>, <<UrlHouse>>} ELSE {<< >>})
    /\ urls_results = << >>
    /\ url = Some(RESULTS_URL)
    /\ pages = 0 /\ collected = << >> /\ merged = << >> /\ idx = 0
    /\ items = << >> /\ skipped = << >> /\ dedup = << >>
    /\ index_gets = 0 /\ detail_gets = NoGets
    /\ inp = NoInput /\ res = NoResult

\* The control thread is never suspended for good: a step that can be taken
\* is taken.
NextIndex ==
    \/ ResultsPageFetched
    \/ ResultsFetchFailed
    \/ ResultsReturn
    \/ PageFetched_1
    \/ FetchRaised_1
    \/ Finish_1

SpecIndex == InitIndex /\ [][NextIndex]_vars /\ WF_vars(NextIndex)

-----------------------------------------------------------------------------
(* Properties of the validator and the extractors, under SpecUnit *)

Validated == pc = "unit_done" /\ res.fn = "extract_complete_item_from_detail"
Called(fn) == pc = "unit_done" /\ res.fn = fn

C3_EarliestFailingStage ==
    Validated =>
        LET failing == { k \in 1..Len(Stages) : StageFails(Stages[k], inp.page, inp.url) }
        IN  IF failing = {}
            THEN IsSome(res.val.item) /\ res.val.reason = ""
            ELSE /\ IsNone(res.val.item)
                 /\ \E k \in failing :
                       /\ \A j \in failing : k <= j
                       /\ res.val.reason = StageReason(Stages[k])

\* A page failing both price and beds, and nothing before them, rejected as
\* missing_price
C3_Witness ==
    /\ Validated
    /\ StageFails("price", inp.page, inp.url) /\ StageFails("beds", inp.page, inp.url)
    /\ \A k \in 1..3 : ~StageFails(Stages[k], inp.page, inp.url)
    /\ res.val.reason = "missing_price"

\* No bedroom value from any of the four sources of extract_beds: JSON-LD,
\* labelled row, bed-class block, "N bedroom" phrase
NoBedSignal(page) ==
    /\ IsNone(extract_beds_jsonld(page))
    /\ IsNone(page.labelBeds)
    /\ IsNone(extract_beds_blocks(page))
    /\ IsNone(page.wordBeds)

\* The URL has a property-type segment and it names a type without bedrooms
TypeWithoutBeds(parts) ==
    /\ IsSome(property_type_from_url(parts))
    /\ lower(Get(property_type_from_url(parts))) \in TYPES_NO_BEDS

\* C4: for a URL whose property-type segment is in TYPES_NO_BEDS and a page
\* without any bedroom signal, extract_beds returns exactly 0, and the
\* validator never rejects the page with missing_beds_required_for_residential.
C4_ZeroBedsForTypesWithoutBeds ==
    /\ (Called("extract_beds") /\ TypeWithoutBeds(inp.url) /\ NoBedSignal(inp.page))
          => res.val = Some(0)
    /\ (Validated /\ TypeWithoutBeds(inp.url) /\ NoBedSignal(inp.page))
          => /\ res.val.reason # "missing_beds_required_for_residential"
             /\ IsSome(res.val.item) => Get(res.val.item).beds = Some(0)

\* A page of a vacant-land URL without bedroom signal, emitted with beds 0
C4_Witness ==
    /\ Validated
    /\ TypeWithoutBeds(inp.url) /\ NoBedSignal(inp.page)
    /\ IsSome(res.val.item)
    /\ Get(res.val.item).beds = Some(0)

\* C5: a page that passes the ownership, area, title and price checks, has no
\* bedroom signal, and whose type is not in TYPES_NO_BEDS (the URL may have no
\* type segment at all) yields no record and the reason
\* missing_beds_required_for_residential.
C5_MissingBedsRejected ==
    ( /\ Validated
      /\ \A k \in 1..4 : ~StageFails(Stages[k], inp.page, inp.url)
      /\ NoBedSignal(inp.page)
      /\ ~TypeWithoutBeds(inp.url) )
    => /\ IsNone(res.val.item)
       /\ res.val.reason = "missing_beds_required_for_residential"

\* Such a page under a URL that has no type segment
C5_Witness ==
    /\ Validated
    /\ \A k \in 1..4 : ~StageFails(Stages[k], inp.page, inp.url)
    /\ NoBedSignal(inp.page)
    /\ IsNone(property_type_from_url(inp.url))
    /\ res.val.reason = "missing_beds_required_for_residential"
    /\ res.val.property_type = Some(Unknown)

\* The positions of the path's for-sale and to-let segments
MarkerPositions(parts) == { i \in 1..Len(parts) : parts[i] \in {ForSale, ToLet} }

\* The marker both scripts go by: the first for-sale segment when the path
\* has one, and the first to-let segment only when it has no for-sale segment
IsTheMarker(parts, i) ==
    /\ i \in MarkerPositions(parts)
    /\ \A j \in 1..(i-1) : parts[j] # parts[i]
    /\ parts[i] = ToLet => \A j \in 1..Len(parts) : parts[j] # ForSale

AreaOfSlug(seg) == title(replace_hyphen(chars(seg)))

SandtonCentral ==
    <<"S", "a", "n", "d", "t", "o", "n", " ", "C", "e", "n", "t", "r", "a", "l">>

\* C6 (as the code has it): area depends on the URL path only. It is read at
\* the marker, the first for-sale segment or, in a path without for-sale, the
\* first to-let segment. fetch_stock.py takes the segment two positions after
\* the marker, hyphens replaced by spaces and title-cased, and has no area
\* when fewer than two segments follow the marker or the path has no marker;
\* a page of the agent without area is rejected with missing_area.
\* fetch_stock1.py does the same but falls back to the segment right after
\* the marker when only one segment follows it.
C6_AreaFromMarker ==
    /\ Called("parse_location_from_url") =>
          /\ \A i \in 1..Len(inp.url) :
                IsTheMarker(inp.url, i) =>
                    res.val = IF i + 2 <= Len(inp.url)
                              THEN Some(AreaOfSlug(inp.url[i + 2])) ELSE None
          /\ MarkerPositions(inp.url) = {} => res.val = None
          /\ inp.url = UrlHouse => res.val = Some(SandtonCentral)
    /\ Called("area_from_url") =>
          /\ \A i \in 1..Len(inp.url) :
                IsTheMarker(inp.url, i) =>
                    res.val = IF i + 2 <= Len(inp.url) THEN Some(AreaOfSlug(inp.url[i + 2]))
                              ELSE IF i + 1 <= Len(inp.url) THEN Some(AreaOfSlug(inp.url[i + 1]))
                              ELSE None
          /\ MarkerPositions(inp.url) = {} => res.val = None
    /\ Validated =>
          /\ (verify_agent_ownership(inp.page) /\ IsNone(parse_location_from_url(inp.url)))
                => (IsNone(res.val.item) /\ res.val.reason = "missing_area")
          /\ IsSome(res.val.item) =>
                Get(res.val.item).area = parse_location_from_url(inp.url)

\* C6 as stated: whenever some for-sale or to-let segment is followed by at
\* least two segments, area is the segment two positions after such a
\* segment; otherwise area is absent and the page is rejected with
\* missing_area; area never falls back to another segment.
C6_AreaTwoAfterAnyMarker ==
    LET Qualifying(parts) == { i \in MarkerPositions(parts) : i + 2 <= Len(parts) }
        AsStated(parts, val) ==
            IF Qualifying(parts) = {} THEN val = None
            ELSE \E i \in Qualifying(parts) : val = Some(AreaOfSlug(parts[i + 2]))
    IN  /\ Called("parse_location_from_url") => AsStated(inp.url, res.val)
        /\ Called("area_from_url") => AsStated(inp.url, res.val)
        /\ (Validated /\ verify_agent_ownership(inp.page) /\ res.val.reason # "missing_area")
              => Qualifying(inp.url) # {}

\* A path whose to-let segment is followed by two segments and whose later
\* for-sale segment is followed by none: no area
C6_Witness ==
    /\ Called("parse_location_from_url")
    /\ inp.url = UrlBothMarkers
    /\ res.val = None

\* fetch_stock1.py gives the city as the area of a path that ends after it
C6_WitnessCityFallback ==
    /\ Called("area_from_url")
    /\ inp.url = UrlCityOnly
    /\ res.val = Some(<<"J", "h", "b">>)

\* The price candidates of a page: the content of the price meta element, the
\* texts of the price-class blocks, the first currency-prefixed match of the text
PriceCandidates(page) ==
    (IF IsSome(page.metaPrice) THEN {Get(page.metaPrice)} ELSE {})
    \cup Range(page.priceBlocks)
    \cup (IF page.monies # << >> THEN {Head(page.monies)} ELSE {})

\* C7 as stated: a candidate that normalises to zero or to no digits is no
\* match at any stage of the price cascade, so extract_price never returns 0,
\* no record has price 0, and a page of the agent with area and title whose
\* candidates all normalise to zero or nothing is rejected with missing_price.
C7_ZeroPriceIsNoMatch ==
    /\ Called("extract_price") => res.val # Some(0)
    /\ Validated =>
          /\ IsSome(res.val.item) => Get(res.val.item).price # Some(0)
          /\ ( /\ \A k \in 1..3 : ~StageFails(Stages[k], inp.page, inp.url)
               /\ \A c \in PriceCandidates(inp.page) : ~Truthy(to_int_money(Some(c))) )
             => res.val.reason = "missing_price"

\* The ref cascade with the LAST numeric segment of the URL as its final stage
LastNumericSegment(parts) ==
    IF \A i \in 1..Len(parts) : ~IsNumericSegment(parts[i]) THEN None
    ELSE Some(chars(parts[CHOOSE i \in 1..Len(parts) :
                  IsNumericSegment(parts[i]) /\ \A j \in (i+1)..Len(parts) : ~IsNumericSegment(parts[j])]))

UpperOpt(o) == IF IsSome(o) THEN Some(upper(Get(o))) ELSE None

\* C8 as stated: extract_ref returns, uppercased, the first match in the
\* order labelled pattern, ref-class block, prefixed code, numeric window next
\* to a label, standalone number of five or more digits outside every money
\* amount, last numeric URL segment; a labelled reference wins over a bare
\* number wherever the two stand in the text.
C8_RefCascadeEndsAtLastUrlSegment ==
    Called("extract_ref") =>
        LET NotEmpty(o) == IsSome(o) /\ Get(o) # << >>
            stages == << inp.page.refLabelled,
                         extract_ref_blocks(inp.page),
                         inp.page.refRL,
                         inp.page.refWindow,
                         extract_ref_numeric(inp.page),
                         LastNumericSegment(inp.url) >>
        IN  /\ res.val = UpperOpt(first_where(stages, NotEmpty))
            /\ IsSome(inp.page.refLabelled) => res.val = Some(upper(Get(inp.page.refLabelled)))

-----------------------------------------------------------------------------
(* Properties of a run, under Spec and SpecIndex *)

NonEmpty(o) == IsSome(o) /\ Get(o) # << >>

\* The record holds what the extractors found on this page under this URL;
\* beds 0 stands in only for a type without bedrooms on a page without any
\* bedroom signal
ResolvedFrom(r, page) ==
    /\ verify_agent_ownership(page)
    /\ r.ref = extract_ref(page, r.url)
    /\ r.title = extract_title(page)
    /\ r.price = extract_price(page)
    /\ r.area = parse_location_from_url(r.url)
    /\ \/ ~NoBedSignal(page) /\ r.beds = extract_beds(page, ptype_of(r.url))
       \/ NoBedSignal(page) /\ TypeWithoutBeds(r.url) /\ r.beds = Some(0)

\* C1: in every state of a run of fetch_stock.py, every record of items and
\* of the final dedup list has ref, title and area non-empty, its url set,
\* price and beds not null, each field being what the extractors resolved on
\* the page (beds 0 only by the rule for types without bedrooms); dedup holds
\* only records of items.
C1_RecordsComplete ==
    script = "fetch_stock" =>
        /\ \A r \in Range(items) \cup Range(dedup) :
              /\ NonEmpty(r.ref) /\ NonEmpty(r.title) /\ NonEmpty(r.area)
              /\ r.url \in Range(merged)
              /\ IsSome(r.price) /\ IsSome(r.beds)
              /\ \E page \in DetailPages : ResolvedFrom(r, page)
        /\ Range(dedup) \subseteq Range(items)

\* A finished run that wrote a record with beds 0 and rejected another page
\* for its missing beds
C1_Witness ==
    /\ script = "fetch_stock" /\ pc = "done"
    /\ \E i \in 1..Len(dedup) : dedup[i].beds = Some(0)
    /\ \E j \in 1..Len(skipped) : skipped[j].reason = "missing_beds_required_for_residential"

\* The number of outcomes (records and rejections) of candidate u
Outcomes(u) ==
    Cardinality({ i \in 1..Len(items) : items[i].url = u })
    + Cardinality({ j \in 1..Len(skipped) : skipped[j].url = u })

\* C10: every candidate the detail loop has passed was fetched exactly once
\* and has exactly one outcome, a record or a rejection; the others have none.
\* After the loop the records and the rejections together are as many as the
\* candidates, and no URL is in both.
C10_OneOutcomePerCandidate ==
    script = "fetch_stock" =>
        /\ \A k \in 1..Len(merged) :
              /\ Outcomes(merged[k]) = IF k <= idx THEN 1 ELSE 0
              /\ detail_gets[merged[k]] = IF k <= idx THEN 1 ELSE 0
        /\ \A u \in CandUrls \ Range(merged) : Outcomes(u) = 0 /\ detail_gets[u] = 0
        /\ pc = "done" =>
              /\ idx = Len(merged)
              /\ Len(items) + Len(skipped) = Len(merged)
              /\ Len(dedup) + Len(skipped) = Len(merged)
              /\ { r.url : r \in Range(dedup) } \cap { r.url : r \in Range(skipped) } = {}

\* A finished run whose first detail fetch failed and whose second candidate
\* gave a record
C10_Witness ==
    /\ script = "fetch_stock" /\ pc = "done"
    /\ Len(merged) = 2
    /\ Len(skipped) = 1 /\ skipped[1].url = merged[1]
    /\ skipped[1].reason = "detail_fetch_failed"
    /\ Len(dedup) = 1 /\ dedup[1].url = merged[2]

\* The results-index pass is under way
InIndexPass == pc \in {"results", "results_break", "loop_1"}

\* The page cap of the running script
PageCap == IF script = "fetch_stock" THEN MAX_PAGES ELSE MAX_PAGES_1

\* C9: the results-index pass fetches at most MAX_PAGES index pages and always
\* ends, whatever next links the pages carry; once a page has no next link or
\* the cap is reached no further page is fetched, and the pass ends normally
\* with the URLs collected so far (fetch_stock.py returns them to main,
\* fetch_stock1.py goes on to write them).
C9_IndexPassEnds ==
    /\ [](index_gets <= PageCap)
    /\ <>(~InIndexPass)
    /\ [][ (pc = "results" /\ (IsNone(url) \/ pages >= MAX_PAGES))
             => (pc' = "merge" /\ urls_results' = collected) ]_vars
    /\ [][ (pc = "loop_1" /\ (IsNone(url) \/ pages >= MAX_PAGES_1))
             => (pc' = "done" /\ { r.url : r \in Range(dedup') } = { r.url : r \in Range(collected) }) ]_vars

\* The cap reached on a chain of pages that still has a next link
C9_Witness ==
    /\ script = "fetch_stock" /\ pc = "results"
    /\ IsSome(url)
    /\ pages = MAX_PAGES /\ index_gets = MAX_PAGES
    /\ collected # << >>

\* A step in which a fetch fails: of the profile page, of a results-index page
\* (either script), or of a detail page
FetchFails == ProfileFetchFailed \/ ResultsFetchFailed \/ FetchRaised_1 \/ DetailFetchFailed

\* C11: every step in which the fetch of a page fails (profile page,
\* results-index page or detail page) appends one record to skipped, the
\* content of the diagnostics file, a failed detail page being recorded under
\* its URL, and the run goes on: it does not end in the crashed state.
C11_EveryFailedFetchRecorded ==
    [][ FetchFails =>
          /\ Len(skipped') = Len(skipped) + 1
          /\ skipped'[Len(skipped')].reason = "detail_fetch_failed"
          /\ pc = "detail" => skipped'[Len(skipped')].url = merged[idx + 1]
          /\ pc' # "crashed" ]_vars

\* The records the catalog is made from: items in fetch_stock.py, all_items
\* (collected) in fetch_stock1.py, in the order the pages gave them
Discovered == IF script = "fetch_stock" THEN items ELSE collected

\* Position in Discovered of the first record with url u
FirstPos(u) ==
    CHOOSE k \in 1..Len(Discovered) :
        /\ Discovered[k].url = u
        /\ \A m \in 1..(k - 1) : Discovered[m].url # u

\* Two catalog positions whose records have the same sort price
SamePrice(i, j) == price_or_0(dedup[i]) = price_or_0(dedup[j])

NoTwoWithSameUrl == \A i, j \in 1..Len(dedup) : i # j => dedup[i].url # dedup[j].url
PriceNonIncreasing ==
    \A i, j \in 1..Len(dedup) : i < j => price_or_0(dedup[i]) >= price_or_0(dedup[j])

\* Records of equal price and different titles stand in descending title order
TiesByTitle ==
    \A i, j \in 1..Len(dedup) :
        (i < j /\ SamePrice(i, j) /\ dedup[i].title # dedup[j].title)
            => str_lt(title_or_empty(dedup[j]), title_or_empty(dedup[i]))

\* Records of equal price stand in the order of their discovery
TiesByDiscovery ==
    \A i, j \in 1..Len(dedup) :
        (i < j /\ SamePrice(i, j)) => FirstPos(dedup[i].url) < FirstPos(dedup[j].url)

\* C12 (as the code has it): the catalog written by either script holds, for
\* each url discovered, the first record found for it and no other, in order
\* of non-increasing price (a missing price counting as 0). In fetch_stock.py
\* records of equal price and different titles are in descending title
\* order, whatever the order of their discovery, and records equal in both
\* keep discovery order; in fetch_stock1.py the sort key is the price alone
\* and records of equal price keep discovery order, whatever their titles.
C12_CatalogDedupSorted ==
    pc = "done" =>
        /\ NoTwoWithSameUrl
        /\ Range(dedup) = Range(dedup_by_url(Discovered))
        /\ PriceNonIncreasing
        /\ script = "fetch_stock" =>
              /\ TiesByTitle
              /\ \A i, j \in 1..Len(dedup) :
                    (i < j /\ sort_key(dedup[i]) = sort_key(dedup[j]))
                        => FirstPos(dedup[i].url) < FirstPos(dedup[j].url)
        /\ script = "fetch_stock1" => TiesByDiscovery

\* C12 as stated: in the catalog of either script no url occurs twice, prices
\* do not increase, and records of equal price and different titles are
\* ordered by their titles.
C12_TiesDecidedByTitle ==
    pc = "done" => (NoTwoWithSameUrl /\ PriceNonIncreasing /\ TiesByTitle)

\* A catalog of fetch_stock.py with two records of equal price whose title
\* order reverses the order of their discovery
C12_Witness ==
    /\ script = "fetch_stock" /\ pc = "done"
    /\ Len(dedup) = 2 /\ SamePrice(1, 2)
    /\ dedup[1].title # dedup[2].title
    /\ FirstPos(dedup[1].url) > FirstPos(dedup[2].url)

\* A catalog of fetch_stock1.py with two records of equal price left in
\* discovery order against their titles
C12_WitnessPriceOnly ==
    /\ script = "fetch_stock1" /\ pc = "done"
    /\ Len(dedup) = 2 /\ SamePrice(1, 2)
    /\ str_lt(title_or_empty(dedup[1]), title_or_empty(dedup[2]))
    /\ Len(collected) = 3

NoDup(seq) == \A i, j \in 1..Len(seq) : i # j => seq[i] # seq[j]

\* Position of the first occurrence of u in seq
FirstIn(seq, u) == CHOOSE k \in 1..Len(seq) : seq[k] = u /\ \A m \in 1..(k - 1) : seq[m] # u

\* main has merged the two lists
MergeDone == script = "fetch_stock" /\ pc \in {"detail", "done"}

\* C13: in fetch_stock.py the lists the two passes hand to main hold no URL
\* twice, and collected holds none twice while the results-index pass runs. Once main has
\* merged them, merged holds every URL of urls_profile and of urls_results
\* and no other, each exactly once, in the order of their first occurrence in
\* urls_profile followed by urls_results; so the URLs of urls_profile come
\* first, in their order, and every URL found by the results-index pass only
\* comes after all of them. De-duplicating merged again changes nothing.
C13_MergedProfileFirst ==
    /\ NoDup(urls_profile) /\ NoDup(urls_results)
    /\ script = "fetch_stock" => NoDup(collected)
    /\ MergeDone =>
          LET both == urls_profile \o urls_results
          IN  /\ NoDup(merged)
              /\ Range(merged) = Range(urls_profile) \cup Range(urls_results)
              /\ \A i, j \in 1..Len(merged) :
                    i < j => FirstIn(both, merged[i]) < FirstIn(both, merged[j])
              /\ SubSeq(merged, 1, Len(urls_profile)) = urls_profile
              /\ \A i, j \in 1..Len(merged) :
                    (merged[i] \in Range(urls_profile) /\ merged[j] \notin Range(urls_profile))
                        => i < j
              /\ uniq(merged) = merged

\* A merge of overlapping lists: the profile gave one URL, the results index
\* gave another URL first and then the profile's URL again
C13_Witness ==
    /\ MergeDone
    /\ Len(urls_profile) = 1 /\ Len(urls_results) = 2
    /\ urls_results[2] = urls_profile[1]
    /\ merged = <<urls_profile[1], urls_results[1]>>

=============================================================================
